---------------------------- MODULE Spec2Model ----------------------------
(***************************************************************************)
(* A backtest run of the quantics strategies.                              *)
(*                                                                         *)
(* BacktestUtils.run_backtest builds a backtrader Cerebro with its default *)
(* settings (back broker, market orders, no cheat-on-close), one data feed *)
(* and one strategy, and calls cerebro.run().  For every bar of the feed   *)
(* the engine then runs, in this order:                                    *)
(*   1. the broker step: orders submitted on the previous bar are checked  *)
(*      against cash at their creation price (the previous close) and are  *)
(*      Accepted or end in Margin; accepted market orders are executed at  *)
(*      the OPEN of the current bar; the account value is recomputed with  *)
(*      the current close;                                                 *)
(*   2. the queued order notifications are delivered to notify_order;      *)
(*   3. the strategy's next() (prenext() while an indicator is warming up) *)
(*   4. the analyzers' next().                                             *)
(*                                                                         *)
(* Money is counted in thousandths of a currency unit, so that a           *)
(* commission of 0.001 of the notional value is an integer.  Prices are    *)
(* whole currency units.  Python computes in binary floating point; the    *)
(* model computes exactly.                                                 *)
(***************************************************************************)
EXTENDS Integers, Sequences, FiniteSets, TLC

\* ------------------------------------------------------------- bounds ---
MaxBars == 5        \* longest data feed
MaxPrice == 3       \* prices range over 1..MaxPrice
MaxCash == 4        \* initial_cash ranges over MaxCash-1 .. MaxCash units

Prices == 1..MaxPrice

\* commission rate in thousandths: BacktestUtils(commission=0.001)
commission == 1

Money(units) == units * 1000

Variants == {"MovingAverageCross", "RSI", "BollingerBands", "MACD", "BuyHold"}

\* The strategy parameters each variant is run with.  params are inputs of
\* a run; the model instantiates them with short periods so that triggers
\* fire within MaxBars bars.
Configs ==
    {[variant |-> "MovingAverageCross", fast_period |-> 1, slow_period |-> 2],
     [variant |-> "RSI", rsi_period |-> 2, rsi_low |-> 30, rsi_high |-> 60],
     [variant |-> "BollingerBands", period |-> 3, devfactor |-> 1],
     [variant |-> "MACD", fastperiod |-> 1, slowperiod |-> 2, signalperiod |-> 2],
     [variant |-> "BuyHold"]}

VARIABLES
    p,          \* the strategy class and its params (self.params)
    initial_cash, \* BacktestUtils.initial_cash, in thousandths
    closes,     \* datas[0].close of the bars delivered so far
    open,       \* datas[0].open[0]: the open of the current bar
    cash,       \* broker.cash, in thousandths
    position,   \* broker position size (self.position.size)
    value,      \* broker._value: the account value broker.getvalue() returns
    orders,     \* every order created by buy()/sell(), by creation order
    submitted,  \* broker.submitted: ids of orders awaiting the cash check
    pending,    \* broker.pending: ids of accepted orders awaiting execution
    notifs,     \* broker.notifs: order notifications not yet delivered
    self_order, \* the strategy's self.order: 0 is None, else an order id
    trade,      \* the open round trip, if any
    trades,     \* closed round trips (the trade ledger)
    equity,     \* EquityCurveAnalyzer.equity
    pc,         \* where the engine is in its per-bar loop
    caller,     \* where the code that calls the engine is
    feed,       \* the bars of the data feed object the caller holds
    log,        \* what the runs the caller has finished produced
    param_ranges, \* optimize_parameters: the strategy class and param_ranges
    metric,     \* optimize_parameters: the metric to rank by
    todo,       \* the combinations the caller has not yet run
    optimization_results, \* optimize_parameters: the rows collected so far
    optimization_df,      \* optimize_parameters: the rows it returns
    failed,               \* optimize_parameters: the combinations it printed
                          \* as failed, in the order of the prints
    strategy_configs,     \* compare_strategies: the list of entries given
    results_dict,         \* compare_strategies: name -> metrics, as inserted
    performance_df,       \* compare_strategies: the rows it returns
    stock_data,           \* the frame given to _validate_and_fix_data
    fixed_data,           \* the frame _validate_and_fix_data returned
    new_year              \* the dates of the feed: the bar at which a second
                          \* calendar year begins; 0: all bars are of one year

\* the state of optimize_parameters
optimizerVars == <<param_ranges, metric, todo, optimization_results,
                   optimization_df, failed>>

\* the state of compare_strategies
compareVars == <<strategy_configs, results_dict, performance_df>>

\* the frames of the data loader and the dates they carry
loaderVars == <<stock_data, fixed_data, new_year>>

\* the state of the calling code
callerVars == <<caller, feed, log, optimizerVars, compareVars, loaderVars>>

vars == <<p, initial_cash, closes, open, cash, position, value, orders,
          submitted, pending, notifs, self_order, trade, trades, equity, pc,
          caller, feed, log, param_ranges, metric, todo, optimization_results,
          optimization_df, strategy_configs, results_dict, performance_df,
          stock_data, fixed_data, failed, new_year>>

Terminal == {"Completed", "Canceled", "Margin", "Rejected"}
Statuses == {"Created", "Submitted", "Accepted"} \cup Terminal

NoTrade == [isopen |-> FALSE, baropen |-> 0, size |-> 0, price |-> 0, commission |-> 0]

\* 0-based index of the current bar: len(data) - 1
Bar == Len(closes) - 1

\* a read of the close one bar ahead of the current one (data.close[1]),
\* where the feed holds one
CloseAhead ==
    IF Len(closes) < Len(feed) THEN feed[Len(closes) + 1].close
    ELSE closes[Len(closes)]

\* data.close[0]
Close == closes[Len(closes)]

\* ------------------------------------------------- commission scheme ---
\* a broker that charges no commission
GetCommissionNone(size, price) == 0

\* CommInfoBase.getcommission, percentage scheme (stock-like, percabs)
GetCommission(size, price) == size * price * commission

\* CommInfoBase.getoperationcost
GetOperationCost(size, price) == size * Money(price)

\* ------------------------------------------------------------ sizing ---
\* a sizing on 95% of cash
NinetyFivePercentSize(csh, price) == ((csh * 95) \div 100) \div Money(price)

\* size = int(cash // price)
FullCashSize(csh, price) == csh \div Money(price)


\* -------------------------------------------------------- indicators ---
\* The indicators are functions of the closes delivered so far; index i is
\* the 1-based position of a bar in the feed.
Max(a, b) == IF a >= b THEN a ELSE b

RECURSIVE SumRange(_, _, _)
SumRange(cs, lo, hi) == IF lo > hi THEN 0 ELSE cs[hi] + SumRange(cs, lo, hi - 1)

Sign(x) == IF x > 0 THEN 1 ELSE IF x < 0 THEN -1 ELSE 0

\* SimpleMovingAverage(close, fast) - SimpleMovingAverage(close, slow) at
\* bar i, times fast*slow (the sign is the sign of the difference)
MADiff(cs, i, fast, slow) ==
    SumRange(cs, i - fast + 1, i) * slow - SumRange(cs, i - slow + 1, i) * fast

\* CrossOver's NonZeroDifference: the last non-zero difference up to bar i;
\* diff is a function from bar positions start..Len to integers
RECURSIVE NonZeroDifference(_, _, _)
NonZeroDifference(diff, start, i) ==
    IF i <= start THEN diff[start]
    ELSE IF diff[i] # 0 THEN diff[i]
    ELSE NonZeroDifference(diff, start, i - 1)

\* a crossing test that also counts touching lines as a cross upwards
CrossOverTouching(diff, start, i) ==
    LET before == NonZeroDifference(diff, start, i - 1)
        up == IF before <= 0 /\ diff[i] >= 0 THEN 1 ELSE 0
        down == IF before > 0 /\ diff[i] < 0 THEN 1 ELSE 0
    IN up - down

\* a detector of the level of the difference, not of its crossing zero
CrossOverLevel(diff, start, i) == Sign(diff[i])

\* bt.indicators.CrossOver(a, b) at bar i > start, with diff = a - b:
\* CrossUp - CrossDown
CrossOver(diff, start, i) ==
    LET before == NonZeroDifference(diff, start, i - 1)
        up == IF before < 0 /\ diff[i] > 0 THEN 1 ELSE 0
        down == IF before > 0 /\ diff[i] < 0 THEN 1 ELSE 0
    IN up - down

\* self.crossover of MovingAverageCrossStrategy at the current bar
MACrossover(cs, fast, slow) ==
    LET start == Max(fast, slow)
        diff == [i \in start..Len(cs) |-> MADiff(cs, i, fast, slow)]
    IN CrossOver(diff, start, Len(cs))

\* RSI_SMA: sums of the up moves and of the down moves of the last
\* `period` bar-to-bar changes ending at bar i (the moving averages are
\* these sums over period)
RECURSIVE UpSum(_, _, _)
UpSum(cs, i, period) ==
    IF period = 0 THEN 0
    ELSE Max(cs[i] - cs[i - 1], 0) + UpSum(cs, i - 1, period - 1)

RECURSIVE DownSum(_, _, _)
DownSum(cs, i, period) ==
    IF period = 0 THEN 0
    ELSE Max(cs[i - 1] - cs[i], 0) + DownSum(cs, i - 1, period - 1)

\* rs = maup / madown divides by zero when no bar of the window closed down
\* (RSI_SMA is created without safediv)
RSIDivByZero(cs, period) ==
    Len(cs) >= period + 1 /\ DownSum(cs, Len(cs), period) = 0

\* rsi = 100 - 100 / (1 + maup / madown) = 100 * up / (up + down),
\* compared with a threshold without dividing
RSIBelow(cs, period, level) ==
    LET up == UpSum(cs, Len(cs), period)
        down == DownSum(cs, Len(cs), period)
    IN 100 * up < level * (up + down)

RSIAbove(cs, period, level) ==
    LET up == UpSum(cs, Len(cs), period)
        down == DownSum(cs, Len(cs), period)
    IN 100 * up > level * (up + down)

\* BollingerBands over the last `period` closes: with S their sum and Q the
\* sum of their squares, mid = S/period and the population standard
\* deviation is sqrt(period*Q - S*S)/period.
RECURSIVE SumSquares(_, _, _)
SumSquares(cs, lo, hi) ==
    IF lo > hi THEN 0 ELSE cs[hi] * cs[hi] + SumSquares(cs, lo, hi - 1)

\* close < bot, bot = mid - devfactor * stddev
BelowBottom(cs, period, devfactor) ==
    LET n == Len(cs)
        S == SumRange(cs, n - period + 1, n)
        Q == SumSquares(cs, n - period + 1, n)
        d == S - period * cs[n]
    IN d > 0 /\ d * d > devfactor * devfactor * (period * Q - S * S)

\* close > top, top = mid + devfactor * stddev
AboveTop(cs, period, devfactor) ==
    LET n == Len(cs)
        S == SumRange(cs, n - period + 1, n)
        Q == SumSquares(cs, n - period + 1, n)
        d == period * cs[n] - S
    IN d > 0 /\ d * d > devfactor * devfactor * (period * Q - S * S)

\* Exact fractions <<numerator, denominator>>, denominator > 0, for the
\* exponential moving averages of MACD.
RECURSIVE GCD(_, _)
GCD(a, b) == IF b = 0 THEN a ELSE GCD(b, a % b)

Abs(x) == IF x < 0 THEN -x ELSE x

Norm(r) ==
    LET g == GCD(Abs(r[1]), r[2])
    IN IF g = 0 THEN r ELSE <<r[1] \div g, r[2] \div g>>

RAdd(a, b) == Norm(<<a[1] * b[2] + b[1] * a[2], a[2] * b[2]>>)
RSub(a, b) == Norm(<<a[1] * b[2] - b[1] * a[2], a[2] * b[2]>>)
RMul(a, b) == Norm(<<a[1] * b[1], a[2] * b[2]>>)

RECURSIVE RSum(_, _, _)
RSum(x, lo, hi) == IF lo > hi THEN <<0, 1>> ELSE RAdd(x[hi], RSum(x, lo, hi - 1))

\* ExponentialMovingAverage(x, period) at bar i, x defined from bar start:
\* seeded with the simple average of the first `period` values, then
\* ema = ema[-1] * (1 - alpha) + x * alpha with alpha = 2 / (1 + period)
RECURSIVE EMA(_, _, _, _)
EMA(x, start, period, i) ==
    IF i <= start + period - 1
    THEN RMul(RSum(x, start, start + period - 1), <<1, period>>)
    ELSE RAdd(RMul(EMA(x, start, period, i - 1), <<period - 1, period + 1>>),
              RMul(x[i], <<2, period + 1>>))

\* the first bar at which the MACD line and its signal line both have a
\* value
MACDStart(fastperiod, slowperiod, signalperiod) ==
    Max(fastperiod, slowperiod) + signalperiod - 1

\* the sign of macd_ind.macd - macd_ind.signal at every bar from MACDStart
MACDDiff(cs, fastperiod, slowperiod, signalperiod) ==
    LET n == Len(cs)
        price == [i \in 1..n |-> <<cs[i], 1>>]
        first == Max(fastperiod, slowperiod)
        \* the MACD line as a sequence; it has no value before bar first
        macd == <<>> \o [i \in 1..n |->
                    IF i < first THEN <<0, 1>>
                    ELSE RSub(EMA(price, 1, fastperiod, i),
                              EMA(price, 1, slowperiod, i))]
    IN  [i \in MACDStart(fastperiod, slowperiod, signalperiod)..n |->
            Sign(RSub(macd[i], EMA(macd, first, signalperiod, i))[1])]

\* self.macd_crossover of MACDStrategy at the current bar:
\* CrossOver(macd_ind.macd, macd_ind.signal)
MACDCrossover(cs, fastperiod, slowperiod, signalperiod) ==
    CrossOver(MACDDiff(cs, fastperiod, slowperiod, signalperiod),
              MACDStart(fastperiod, slowperiod, signalperiod), Len(cs))

\* The number of bars a strategy's indicators need before next() is called
\* (the strategy's minimum period); prenext() is called before.
MinPeriod(q) ==
    CASE q.variant = "MovingAverageCross" -> Max(q.fast_period, q.slow_period) + 1
      [] q.variant = "RSI" -> q.rsi_period + 1
      [] q.variant = "BollingerBands" -> q.period
      [] q.variant = "MACD" -> Max(q.fastperiod, q.slowperiod) + q.signalperiod
      [] OTHER -> 1

\* ------------------------------------------------------------ broker ---
\* A broker state: the fields the broker step reads and writes.
SetStatus(b, id, st) == [b EXCEPT !.orders[id].status = st]

\* BackBroker.notify: queue a copy of the order in its present status
Notify(b, id) ==
    [b EXCEPT !.notifs = Append(@, [id |-> id, status |-> b.orders[id].status])]

\* BackBroker._execute as a pseudo-execution (check_submitted): the cash
\* left if the order executed at its creation price
PseudoExecute(o, pcash) ==
    IF o.side = "Buy"
    THEN pcash - GetOperationCost(o.size, o.price) - GetCommission(o.size, o.price)
    ELSE pcash + GetOperationCost(o.size, o.price) - GetCommission(o.size, o.price)

\* BackBroker.check_submitted: each submitted order is Accepted when the
\* pseudo-execution leaves cash >= 0 and ends in Margin otherwise
RECURSIVE CheckSubmitted(_, _, _, _)
CheckSubmitted(ids, pcash, b, accepted) ==
    IF ids = <<>> THEN [b |-> b, pending |-> accepted]
    ELSE LET id == Head(ids)
             left == PseudoExecute(b.orders[id], pcash)
         IN IF left >= 0
            THEN CheckSubmitted(Tail(ids), left,
                                Notify(SetStatus(b, id, "Accepted"), id),
                                Append(accepted, id))
            ELSE CheckSubmitted(Tail(ids), left,
                                Notify(SetStatus(b, id, "Margin"), id), accepted)

\* The trade bookkeeping of a fill (Trade.update): a fill from flat opens a
\* round trip, a fill back to flat closes it and appends it to the ledger.
TradeAfterBuy(b, o, price, bar) ==
    IF b.trade.isopen THEN b
    ELSE [b EXCEPT !.trade = [isopen |-> TRUE, baropen |-> bar, size |-> o.size,
                              price |-> price,
                              commission |-> GetCommission(o.size, price)]]

\* a sell that closes the round trip without recording it
TradeAfterSellUnrecorded(b, o, price, bar) ==
    IF b.trade.isopen /\ b.position <= 0 THEN [b EXCEPT !.trade = NoTrade] ELSE b

TradeAfterSell(b, o, price, bar) ==
    IF b.trade.isopen /\ b.position <= 0
    THEN LET pnl == b.trade.size * Money(price - b.trade.price)
         IN [b EXCEPT !.trade = NoTrade,
                      !.trades = Append(@,
                          [baropen |-> b.trade.baropen, barclose |-> bar,
                           size |-> b.trade.size, pnl |-> pnl,
                           pnlcomm |-> pnl - b.trade.commission
                                           - GetCommission(o.size, price)])]
    ELSE b

\* an execution at the close of the bar in which the broker runs
MarketPriceClose(barOpen, barClose) == barClose

\* The price a market order executes at: BackBroker._try_exec_market takes
\* the open of the bar in which the broker runs (no cheat-on-close)
MarketPrice(barOpen, barClose) == barOpen

\* BackBroker._execute for real: a Buy that cash cannot pay at the execution
\* price ends in Margin; otherwise cash and position are updated, the order
\* is Completed, and the strategy is notified
Execute(b, id, price, bar) ==
    LET o == b.orders[id]
        cost == GetOperationCost(o.size, price)
        comm == GetCommission(o.size, price)
        done == [b EXCEPT !.orders[id].status = "Completed",
                          !.orders[id].execprice = price,
                          !.orders[id].execbar = bar]
    IN IF o.side = "Buy"
       THEN IF b.cash - cost - comm < 0
            THEN Notify(SetStatus(b, id, "Margin"), id)
            ELSE Notify(TradeAfterBuy([done EXCEPT !.cash = @ - cost - comm,
                                                   !.position = @ + o.size],
                                      o, price, bar), id)
       ELSE Notify(TradeAfterSell([done EXCEPT !.cash = @ + cost - comm,
                                               !.position = @ - o.size],
                                  o, price, bar), id)

\* a broker step that leaves accepted orders unexecuted
ExecuteNothing(ids, b, price, bar) == b

RECURSIVE ExecutePending(_, _, _, _)
ExecutePending(ids, b, price, bar) ==
    IF ids = <<>> THEN b
    ELSE ExecutePending(Tail(ids), Execute(b, Head(ids), price, bar), price, bar)

\* BackBroker._get_value: cash plus the position at the current close
GetValue(csh, size, price) == csh + size * Money(price)

\* ---------------------------------------------------------- the run ---
InitialCash == {Money(c) : c \in (MaxCash - 1)..MaxCash}

\* run_backtest up to cerebro.run(): a fresh engine, the broker's cash set,
\* the strategy constructed (self.order = None), nothing recorded yet
FreshEngine ==
    /\ closes = <<>>
    /\ open = 0
    /\ cash = initial_cash
    /\ value = cash
    /\ position = 0
    /\ orders = <<>>
    /\ submitted = <<>>
    /\ pending = <<>>
    /\ notifs = <<>>
    /\ self_order = 0
    /\ trade = NoTrade
    /\ trades = <<>>
    /\ equity = <<>>
    /\ pc = "advance"

\* no call of optimize_parameters is under way
NoSweep ==
    /\ param_ranges = <<>>
    /\ metric = ""
    /\ todo = <<>>
    /\ optimization_results = <<>>
    /\ optimization_df = <<>>
    /\ failed = <<>>

\* no call of compare_strategies is under way
NoCompare ==
    /\ strategy_configs = <<>>
    /\ results_dict = <<>>
    /\ performance_df = <<>>

\* the data loader's frames are not part of the run
NoLoader ==
    /\ stock_data = <<>>
    /\ fixed_data = <<>>

\* no frame, and a feed whose bars are all of one calendar year, as the
\* frame of test_data_loader is
NoFrame ==
    /\ NoLoader
    /\ new_year = 0

\* a caller that makes the one call run_backtest(strategy_class, data_feed)
OneBacktest ==
    /\ caller = "run_backtest"
    /\ feed = <<>>
    /\ log = <<>>
    /\ NoSweep
    /\ NoCompare
    /\ NoFrame

Init ==
    /\ p \in Configs
    /\ initial_cash \in InitialCash
    /\ FreshEngine
    /\ OneBacktest

\* the option names each strategy class declares in params
Declared(strategy_class) ==
    {"printlog"} \cup
    CASE strategy_class = "MovingAverageCross" -> {"fast_period", "slow_period"}
      [] strategy_class = "RSI" -> {"rsi_period", "rsi_low", "rsi_high"}
      [] strategy_class = "BollingerBands" -> {"period", "devfactor"}
      [] strategy_class = "MACD" -> {"fastperiod", "slowperiod", "signalperiod"}
      [] OTHER -> {}

\* the keyword arguments of addstrategy that are no params of the class:
\* backtrader passes them on to the strategy's __init__(self)
Undeclared(q) == (DOMAIN q \ {"variant"}) \ Declared(q.variant)

\* The feed delivers its next bar.  RSI_SMA's division raises
\* ZeroDivisionError out of cerebro.run() for a feed that holds a window
\* without a down move; the model raises when the window is delivered.
DeliverBar(o, c) ==
    /\ pc = "advance"
    /\ Undeclared(p) = {}
    /\ open' = o
    /\ closes' = Append(closes, c)
    /\ pc' = IF p.variant = "RSI" /\ RSIDivByZero(closes', p.rsi_period)
             THEN "raised" ELSE "broker"
    /\ UNCHANGED <<p, initial_cash, cash, position, value, orders, submitted,
                   pending, notifs, self_order, trade, trades, equity>>
    /\ UNCHANGED callerVars

Advance ==
    /\ Len(closes) < MaxBars
    /\ \E o \in Prices, c \in Prices : DeliverBar(o, c)

\* The feed is exhausted: cerebro.run() returns.  No broker step follows
\* the last bar.
Stop ==
    /\ pc = "advance"
    /\ Len(closes) >= 1
    /\ pc' = "done"
    /\ UNCHANGED <<p, initial_cash, closes, open, cash, position, value, orders,
                   submitted, pending, notifs, self_order, trade, trades, equity>>
    /\ UNCHANGED callerVars

\* BackBroker.next, first part: check_submitted
BrokerCheckSubmitted ==
    /\ pc = "broker"
    /\ LET b0 == [cash |-> cash, position |-> position, orders |-> orders,
                  notifs |-> notifs, trade |-> trade, trades |-> trades]
           chk == CheckSubmitted(submitted, cash, b0, pending)
       IN /\ orders' = chk.b.orders
          /\ notifs' = chk.b.notifs
          /\ pending' = chk.pending
    /\ submitted' = <<>>
    /\ pc' = "execute"
    /\ UNCHANGED <<p, initial_cash, closes, open, cash, position, value,
                   self_order, trade, trades, equity>>
    /\ UNCHANGED callerVars

\* BackBroker.next, second part: every pending market order is executed on
\* the current bar, then the account value is recomputed
BrokerExecute ==
    /\ pc = "execute"
    /\ LET b0 == [cash |-> cash, position |-> position, orders |-> orders,
                  notifs |-> notifs, trade |-> trade, trades |-> trades]
           b1 == ExecutePending(pending, b0, MarketPrice(open, Close), Bar)
       IN /\ cash' = b1.cash
          /\ position' = b1.position
          /\ orders' = b1.orders
          /\ notifs' = b1.notifs
          /\ trade' = b1.trade
          /\ trades' = b1.trades
          /\ value' = GetValue(b1.cash, b1.position, Close)
    /\ pending' = <<>>
    /\ pc' = "strategy"
    /\ UNCHANGED <<p, initial_cash, closes, open, submitted, self_order, equity>>
    /\ UNCHANGED callerVars

\* a notify_order that does not reset self.order on Margin
OrderAfterNotifyMarginKept(status, current) ==
    IF status \in {"Completed", "Canceled", "Rejected"} THEN 0 ELSE current

\* a notify_order that does not reset self.order on Completed
OrderAfterNotifyCompletedKept(status, current) ==
    IF status \in {"Canceled", "Margin", "Rejected"} THEN 0 ELSE current

\* BaseStrategy.notify_order: what self.order is after a notification
OrderAfterNotify(status, current) ==
    IF status \in {"Submitted", "Accepted"} THEN current
    ELSE IF status = "Completed" THEN 0
    ELSE IF status \in {"Canceled", "Margin", "Rejected"} THEN 0
    ELSE current

\* The engine delivers the oldest queued notification to notify_order
NotifyOrder ==
    /\ pc = "strategy"
    /\ notifs # <<>>
    /\ self_order' = OrderAfterNotify(Head(notifs).status, self_order)
    /\ notifs' = Tail(notifs)
    /\ UNCHANGED <<p, initial_cash, closes, open, cash, position, value, orders,
                   submitted, pending, trade, trades, equity, pc>>
    /\ UNCHANGED callerVars

\* a prenext that buys with all cash, as next() of buy-and-hold does
PrenextTrades ==
    /\ pc = "strategy"
    /\ notifs = <<>>
    /\ Len(closes) < MinPeriod(p)
    /\ pc' = "analyzer"
    /\ IF position = 0 /\ self_order = 0 /\ cash >= Money(closes[Len(closes)])
       THEN /\ orders' = Append(orders,
                    [side |-> "Buy", size |-> cash \div Money(closes[Len(closes)]),
                     status |-> "Submitted", bar |-> Len(closes) - 1,
                     price |-> closes[Len(closes)], execbar |-> -1, execprice |-> 0])
            /\ submitted' = Append(submitted, Len(orders) + 1)
            /\ notifs' = Append(notifs, [id |-> Len(orders) + 1, status |-> "Submitted"])
            /\ self_order' = Len(orders) + 1
       ELSE UNCHANGED <<orders, submitted, notifs, self_order>>
    /\ UNCHANGED <<p, initial_cash, closes, open, cash, position, value, pending,
                   trade, trades, equity>>
    /\ UNCHANGED callerVars

\* Strategy.prenext: the indicators are not all defined yet
Prenext ==
    /\ pc = "strategy"
    /\ notifs = <<>>
    /\ Len(closes) < MinPeriod(p)
    /\ pc' = "analyzer"
    /\ UNCHANGED <<p, initial_cash, closes, open, cash, position, value, orders,
                   submitted, pending, notifs, self_order, trade, trades, equity>>
    /\ UNCHANGED callerVars

\* self.order = self.buy(size) / self.sell(size): a market order is created
\* at the current close and submitted to the broker, which queues it for
\* the next broker step and notifies Submitted
NewOrder(side, size) ==
    [side |-> side, size |-> size, status |-> "Submitted", bar |-> Bar,
     price |-> Close, execbar |-> -1, execprice |-> 0]

Submit(side, size) ==
    LET id == Len(orders) + 1
    IN /\ orders' = Append(orders, NewOrder(side, size))
       /\ submitted' = Append(submitted, id)
       /\ notifs' = Append(notifs, [id |-> id, status |-> "Submitted"])
       /\ self_order' = id

NoOrder == UNCHANGED <<orders, submitted, notifs, self_order>>

\* a sell of one share more than held
SellSizeOver == position + 1

\* self.sell(size=self.position.size)
SellSize == position

\* The body the four indicator strategies share after their triggers are
\* read: nothing while an order is pending; flat and buy trigger: buy
\* int(cash // close) shares if that is at least one; long and sell
\* trigger: sell the whole position
Decide(buyTrigger, sellTrigger) ==
    IF self_order # 0 THEN NoOrder
    ELSE IF position = 0
    THEN IF buyTrigger /\ FullCashSize(cash, Close) > 0
         THEN Submit("Buy", FullCashSize(cash, Close))
         ELSE NoOrder
    ELSE IF sellTrigger THEN Submit("Sell", SellSize)
         ELSE NoOrder

StrategyStep(variant) ==
    /\ pc = "strategy"
    /\ notifs = <<>>
    /\ p.variant = variant
    /\ Len(closes) >= MinPeriod(p)
    /\ pc' = "analyzer"
    /\ UNCHANGED <<p, initial_cash, closes, open, cash, position, value, pending,
                   trade, trades, equity>>
    /\ UNCHANGED callerVars

MovingAverageCrossNext ==
    /\ StrategyStep("MovingAverageCross")
    /\ LET crossover == MACrossover(closes, p.fast_period, p.slow_period)
       IN Decide(crossover > 0, crossover < 0)

RSINext ==
    /\ StrategyStep("RSI")
    /\ Decide(RSIBelow(closes, p.rsi_period, p.rsi_low),
              RSIAbove(closes, p.rsi_period, p.rsi_high))

BollingerBandsNext ==
    /\ StrategyStep("BollingerBands")
    /\ Decide(BelowBottom(closes, p.period, p.devfactor),
              AboveTop(closes, p.period, p.devfactor))

MACDNext ==
    /\ StrategyStep("MACD")
    /\ LET crossover == MACDCrossover(closes, p.fastperiod, p.slowperiod,
                                      p.signalperiod)
       IN Decide(crossover > 0, crossover < 0)

\* BuyHoldStrategy.next: buys whenever flat; it does not read self.order
BuyHoldNext ==
    /\ StrategyStep("BuyHold")
    /\ IF position = 0 /\ FullCashSize(cash, Close) > 0
       THEN Submit("Buy", FullCashSize(cash, Close))
       ELSE NoOrder

\* a recorder that appends broker.getcash() instead
RecordedCash == cash

\* EquityCurveAnalyzer.next: append broker.getvalue()
RecordedValue == value

AnalyzerNext ==
    /\ pc = "analyzer"
    /\ equity' = Append(equity, RecordedValue)
    /\ pc' = "advance"
    /\ UNCHANGED <<p, initial_cash, closes, open, cash, position, value, orders,
                   submitted, pending, notifs, self_order, trade, trades>>
    /\ UNCHANGED callerVars

Next ==
    \/ Advance
    \/ Stop
    \/ BrokerCheckSubmitted
    \/ BrokerExecute
    \/ NotifyOrder
    \/ Prenext
    \/ MovingAverageCrossNext
    \/ RSINext
    \/ BollingerBandsNext
    \/ MACDNext
    \/ BuyHoldNext
    \/ AnalyzerNext

Spec == Init /\ [][Next]_vars

\* -------------------------------------- moving average cross, any periods ---
\* run_backtest(MovingAverageCrossStrategy, data, fast_period=f,
\* slow_period=s) for every pair of periods up to 2
MAConfigs ==
    {[variant |-> "MovingAverageCross", fast_period |-> f, slow_period |-> s] :
        f \in 1..2, s \in 1..2}

InitMA ==
    /\ p \in MAConfigs
    /\ initial_cash \in InitialCash
    /\ FreshEngine
    /\ OneBacktest

NextMA ==
    \/ Advance
    \/ Stop
    \/ BrokerCheckSubmitted
    \/ BrokerExecute
    \/ NotifyOrder
    \/ Prenext
    \/ MovingAverageCrossNext
    \/ AnalyzerNext

SpecMA == InitMA /\ [][NextMA]_vars

\* ------------------------------------------------ the crossover variants ---
\* run_backtest over every feed for the two strategies that trade on a
\* CrossOver indicator
CrossConfigs == {q \in Configs : q.variant \in {"MovingAverageCross", "MACD"}}

InitCross ==
    /\ p \in CrossConfigs
    /\ initial_cash \in InitialCash
    /\ FreshEngine
    /\ OneBacktest

NextCross ==
    \/ Advance
    \/ Stop
    \/ BrokerCheckSubmitted
    \/ BrokerExecute
    \/ NotifyOrder
    \/ Prenext
    \/ MovingAverageCrossNext
    \/ MACDNext
    \/ AnalyzerNext

SpecCross == InitCross /\ [][NextCross]_vars

\* ------------------------------------------- several round trips in a run ---
\* run_backtest(BollingerBandsStrategy, data, period=2, devfactor=0) over
\* feeds one bar longer: the strategy buys on a falling close and sells on
\* a rising one, so that a run holds two round trips
LedgerConfigs == {[variant |-> "BollingerBands", period |-> 2, devfactor |-> 0]}

InitLedger ==
    /\ p \in LedgerConfigs
    /\ initial_cash = Money(MaxCash - 1)
    /\ FreshEngine
    /\ OneBacktest

AdvanceLong ==
    /\ Len(closes) < MaxBars + 1
    /\ \E o \in Prices, c \in Prices : DeliverBar(o, c)

NextLedger ==
    \/ AdvanceLong
    \/ Stop
    \/ BrokerCheckSubmitted
    \/ BrokerExecute
    \/ NotifyOrder
    \/ Prenext
    \/ BollingerBandsNext
    \/ AnalyzerNext

SpecLedger == InitLedger /\ [][NextLedger]_vars

\* ----------------------------------------- several runs on one data feed ---
\* A caller creates one data feed (DataLoader.create_bt_data_feed) and
\* passes it to several runs, as test_backtest_utils and compare_strategies
\* do.  Every run builds its own Cerebro, broker and strategy; cerebro.run()
\* rewinds the feed and delivers its bars from the first.  The feeds of
\* these callers are up to SessionBars bars, each opening at the previous
\* close.
SessionBars == MaxBars - 1

engineVars == <<closes, open, cash, position, value, orders, submitted, pending,
                notifs, self_order, trade, trades, equity, pc>>

\* the engine before the caller's first run
Idle ==
    /\ closes = <<>>
    /\ open = 0
    /\ cash = initial_cash
    /\ value = initial_cash
    /\ position = 0
    /\ orders = <<>>
    /\ submitted = <<>>
    /\ pending = <<>>
    /\ notifs = <<>>
    /\ self_order = 0
    /\ trade = NoTrade
    /\ trades = <<>>
    /\ equity = <<>>
    /\ pc = "idle"

\* The caller's data: one more bar of the frame the feed is created from
LoadBar ==
    /\ caller = "load"
    /\ Len(feed) < SessionBars
    /\ \E c \in Prices :
          feed' = Append(feed, [open |-> IF feed = <<>> THEN c
                                        ELSE feed[Len(feed)].close,
                               close |-> c])
    /\ UNCHANGED <<p, initial_cash, loaderVars, compareVars, engineVars, caller, log, optimizerVars>>

\* a broker that starts with the cash the previous run left
StartCashCarried == cash

\* cerebro.broker.setcash(self.initial_cash)
StartCash == initial_cash

\* one Cerebro kept for all runs: the broker keeps its cash, position and
\* open trade from the run before
StartEngineShared ==
    /\ closes' = <<>>
    /\ open' = 0
    /\ cash' = cash
    /\ value' = value
    /\ position' = position
    /\ orders' = <<>>
    /\ submitted' = <<>>
    /\ pending' = <<>>
    /\ notifs' = <<>>
    /\ self_order' = 0
    /\ trade' = trade
    /\ trades' = trades
    /\ equity' = <<>>
    /\ pc' = "advance"

\* bt.Cerebro() ... cerebro.run(): a new engine, broker and strategy; the
\* feed is rewound
StartEngine ==
    /\ closes' = <<>>
    /\ open' = 0
    /\ cash' = StartCash
    /\ value' = StartCash
    /\ position' = 0
    /\ orders' = <<>>
    /\ submitted' = <<>>
    /\ pending' = <<>>
    /\ notifs' = <<>>
    /\ self_order' = 0
    /\ trade' = NoTrade
    /\ trades' = <<>>
    /\ equity' = <<>>
    /\ pc' = "advance"

\* The rewound feed delivers its next bar
Replay ==
    /\ Len(closes) < Len(feed)
    /\ DeliverBar(feed[Len(closes) + 1].open, feed[Len(closes) + 1].close)

\* The feed is exhausted
FeedEnd ==
    /\ Len(closes) = Len(feed)
    /\ Stop

\* what a finished run leaves behind, and which call of the caller made it:
\* "done" if cerebro.run() returned, "raised" if it raised
RunResult ==
    [caller |-> caller, p |-> p, feed |-> feed, outcome |-> pc,
     closes |-> closes, orders |-> orders,
     trades |-> trades, equity |-> equity, cash |-> cash,
     position |-> position, value |-> value]

Finished == pc \in {"done", "raised"}

\* test_backtest_utils: the first run on the feed
FirstRun ==
    /\ caller = "load"
    /\ feed # <<>>
    /\ caller' = "first"
    /\ StartEngine
    /\ UNCHANGED <<p, initial_cash, loaderVars, compareVars, feed, log, optimizerVars>>

\* the same strategy and params run once more on the same feed object
RunAgain ==
    /\ caller = "first"
    /\ Finished
    /\ caller' = "again"
    /\ log' = Append(log, RunResult)
    /\ StartEngine
    /\ UNCHANGED <<p, initial_cash, loaderVars, compareVars, feed, optimizerVars>>

\* the same strategy and params run on a feed created from the first k
\* bars of the same data
RunOnPrefix ==
    /\ caller = "first"
    /\ Finished
    /\ caller' = "prefix"
    /\ log' = Append(log, RunResult)
    /\ \E k \in 1..(Len(feed) - 1) : feed' = SubSeq(feed, 1, k)
    /\ StartEngine
    /\ UNCHANGED <<p, initial_cash, loaderVars, compareVars, optimizerVars>>

RerunConfigs == Configs \cup LedgerConfigs

InitRerun ==
    /\ p \in RerunConfigs
    /\ initial_cash \in InitialCash
    /\ Idle
    /\ caller = "load"
    /\ feed = <<>>
    /\ log = <<>>
    /\ NoSweep
    /\ NoCompare
    /\ NoFrame

NextRerun ==
    \/ LoadBar
    \/ FirstRun
    \/ RunAgain
    \/ RunOnPrefix
    \/ Replay
    \/ FeedEnd
    \/ BrokerCheckSubmitted
    \/ BrokerExecute
    \/ NotifyOrder
    \/ Prenext
    \/ MovingAverageCrossNext
    \/ RSINext
    \/ BollingerBandsNext
    \/ MACDNext
    \/ BuyHoldNext
    \/ AnalyzerNext

SpecRerun == InitRerun /\ [][NextRerun]_vars

\* ------------------------------------------------- optimize_parameters ---
\* A caller creates one data feed, runs every combination of a parameter
\* grid on its own (run_strategy_and_get_metrics) and then passes the same
\* grid to optimize_parameters.  log keeps what every run left behind: first
\* the runs the caller made itself, then the runs of the sweep.

\* The params each strategy class declares
MovingAverageCrossParams == [fast_period |-> 20, slow_period |-> 50]

RSIParams == [rsi_period |-> 14, rsi_low |-> 30, rsi_high |-> 70]

Defaults(strategy_class) ==
    IF strategy_class = "MovingAverageCross"
    THEN MovingAverageCrossParams
    ELSE RSIParams

\* The grids the caller sweeps: param_ranges maps each name to its list of
\* values, in the order the caller wrote them
Sweeps ==
    {[strategy_class |-> "MovingAverageCross",
      names |-> <<"fast_period", "slow_period">>,
      values |-> << <<1, 2>>, <<2, 3>> >>],
     [strategy_class |-> "RSI",
      names |-> <<"rsi_period", "rsi_low">>,
      values |-> << <<1, 2>>, <<30, 50>> >>]}

\* the metrics of the model: exact rationals <<numerator, denominator>>;
\* money is in thousandths
MetricNames == {"Final Value", "Total Return (%)", "Max Drawdown (%)"}

\* a < b for fractions
Less(a, b) == a[1] * b[2] < b[1] * a[2]

\* pairing each combination with the value at the same place of every list
ProductZipped(values) ==
    [i \in 1..Len(values[1]) |-> [j \in 1..Len(values) |-> values[j][i]]]

\* itertools.product(*param_values): the last list varies fastest
RECURSIVE Product(_)
Product(values) ==
    IF values = <<>> THEN << <<>> >>
    ELSE LET rest == Product(Tail(values))
             first == Head(values)
             n == Len(rest)
         IN  [i \in 1..(Len(first) * n) |->
                 <<first[((i - 1) \div n) + 1]>> \o rest[((i - 1) % n) + 1]]

\* dict(zip(param_names, combination))
ParamDict(names, combination) ==
    [name \in {names[i] : i \in 1..Len(names)} |->
        combination[CHOOSE i \in 1..Len(names) : names[i] = name]]

\* the combinations of a grid as params dicts, in the order of the loop
Combinations(ranges) ==
    LET product == Product(ranges.values)
    IN  [i \in 1..Len(product) |-> ParamDict(ranges.names, product[i])]

\* cerebro.addstrategy(strategy_class, **params): the params given override
\* the class's own
StrategyParams(strategy_class, params) ==
    [variant |-> strategy_class] @@ params @@ Defaults(strategy_class)

\* bt.analyzers.DrawDown: the largest fall of the value below its running
\* peak, in percent of the peak, over the values seen so far
RECURSIVE MaxDrawdown(_)
MaxDrawdown(seen) ==
    IF seen = <<>> THEN <<0, 1>>
    ELSE LET before == MaxDrawdown(SubSeq(seen, 1, Len(seen) - 1))
             peak == CHOOSE v \in {seen[i] : i \in 1..Len(seen)} :
                         \A i \in 1..Len(seen) : seen[i] <= v
             now == Norm(<<(peak - seen[Len(seen)]) * 100, peak>>)
         IN  IF Less(before, now) THEN now ELSE before

\* the metrics dict of run_strategy_and_get_metrics, from what the run left
MetricsOf(final_value, seen, start_cash) ==
    [name \in MetricNames |->
        IF name = "Final Value" THEN <<final_value, 1>>
        ELSE IF name = "Total Return (%)"
        THEN Norm(<<(final_value - start_cash) * 100, start_cash>>)
        ELSE MaxDrawdown(seen)]

\* TimeReturn(timeframe=Years): the return of each calendar year of the
\* feed, from the account value at the last bar of the year before (the
\* starting cash for the first year) to the value at the year's last bar
YearlyReturns(seen, start_cash) ==
    IF new_year \in 2..Len(seen)
    THEN <<Norm(<<seen[new_year - 1] - start_cash, start_cash>>),
           Norm(<<seen[Len(seen)] - seen[new_year - 1], seen[new_year - 1]>>)>>
    ELSE <<Norm(<<seen[Len(seen)] - start_cash, start_cash>>)>>

\* bt.analyzers.SharpeRatio with its defaults (yearly returns): the mean
\* excess return over the standard deviation of the yearly returns.  The
\* deviation is 0 for one yearly return and for equal ones; the division
\* raises, the analyzer catches it and the ratio is None.  A ratio that
\* exists is left as "number": no metric of the model ranks by it
SharpeRatio(seen, start_cash) ==
    LET returns == YearlyReturns(seen, start_cash)
    IN  IF Len(returns) < 2 \/ returns[1] = returns[2]
        THEN "None"
        ELSE "number"

\* params: the combination being run
RowParams == Head(todo)

\* result = {**params, **metrics}
Row == RowParams @@ MetricsOf(value, equity, initial_cash)

\* The caller starts a run of the first combination on its own
ReferenceRun ==
    /\ caller = "load"
    /\ feed # <<>>
    /\ caller' = "reference"
    /\ StartEngine
    /\ UNCHANGED <<p, initial_cash, loaderVars, compareVars, feed, log, optimizerVars>>

\* The caller's run finished and it runs the next combination on its own
ReferenceNext ==
    /\ caller = "reference"
    /\ Finished
    /\ Tail(todo) # <<>>
    /\ log' = Append(log, RunResult)
    /\ todo' = Tail(todo)
    /\ p' = StrategyParams(param_ranges.strategy_class, todo[2])
    /\ StartEngine
    /\ UNCHANGED <<initial_cash, loaderVars, compareVars, feed, caller, param_ranges, metric,
                   optimization_results, optimization_df, failed>>

\* The caller calls optimize_parameters(strategy_class, data_feed,
\* param_ranges, metric); the first combination is run
Optimize ==
    /\ caller = "reference"
    /\ Finished
    /\ Tail(todo) = <<>>
    /\ log' = Append(log, RunResult)
    /\ caller' = "optimize"
    /\ \E name \in MetricNames : metric' = name
    /\ todo' = Combinations(param_ranges)
    /\ p' = StrategyParams(param_ranges.strategy_class,
                           Combinations(param_ranges)[1])
    /\ optimization_results' = <<>>
    /\ failed' = <<>>
    /\ StartEngine
    /\ UNCHANGED <<initial_cash, loaderVars, compareVars, feed, param_ranges, optimization_df>>

\* the loop goes on to the next combination, or ends
NextCombination ==
    /\ todo' = Tail(todo)
    /\ IF Tail(todo) # <<>>
       THEN /\ p' = StrategyParams(param_ranges.strategy_class, todo[2])
            /\ StartEngine
            /\ caller' = "optimize"
       ELSE /\ caller' = "sort"
            /\ UNCHANGED <<p, engineVars>>

\* try: run_strategy_and_get_metrics returned and the row is kept; then the
\* metrics are printed.  f"{metrics['Sharpe Ratio']:.4f}" raises TypeError
\* when the Sharpe ratio is None: the except clause of the same try prints
\* the combination as failed, and the row stays
OptimizeReturn ==
    /\ caller = "optimize"
    /\ pc = "done"
    /\ log' = Append(log, RunResult)
    /\ optimization_results' = Append(optimization_results, Row)
    /\ failed' = IF SharpeRatio(equity, initial_cash) = "None"
                 THEN Append(failed, RowParams)
                 ELSE failed
    /\ NextCombination
    /\ UNCHANGED <<initial_cash, loaderVars, compareVars, feed, param_ranges, metric, optimization_df>>

\* an except clause that gives the sweep up
OptimizeExceptStops ==
    /\ caller = "optimize"
    /\ pc = "raised"
    /\ log' = Append(log, RunResult)
    /\ todo' = <<>>
    /\ caller' = "sort"
    /\ failed' = Append(failed, RowParams)
    /\ UNCHANGED <<p, initial_cash, loaderVars, compareVars, engineVars, feed, param_ranges, metric,
                   optimization_results, optimization_df>>

\* an except clause that keeps a row for the failed combination
OptimizeExceptKeepsRow ==
    /\ caller = "optimize"
    /\ pc = "raised"
    /\ log' = Append(log, RunResult)
    /\ optimization_results' =
           Append(optimization_results,
                  RowParams @@ [name \in MetricNames |-> <<0, 1>>])
    /\ failed' = Append(failed, RowParams)
    /\ NextCombination
    /\ UNCHANGED <<initial_cash, loaderVars, compareVars, feed, param_ranges, metric, optimization_df>>

\* except Exception: the failure is printed and the loop goes on
OptimizeExcept ==
    /\ caller = "optimize"
    /\ pc = "raised"
    /\ log' = Append(log, RunResult)
    /\ failed' = Append(failed, RowParams)
    /\ NextCombination
    /\ UNCHANGED <<initial_cash, loaderVars, compareVars, feed, param_ranges, metric,
                   optimization_results, optimization_df>>

\* an ordering that puts the smaller value first
AscendingOrder(a, b) == ~ Less(b, a)

\* sort_values(metric, ascending=False): no row is followed by a row with
\* a larger value
InOrder(a, b) == ~ Less(a, b)

\* The orders sort_values may leave the rows in.  Its sorting algorithm is
\* the default one, which is not stable: rows with equal values come in
\* any order.
Rankings(rows, by) ==
    LET n == Len(rows)
        perms == {f \in [1..n -> 1..n] : \A i, j \in 1..n : i # j => f[i] # f[j]}
    IN  {[i \in 1..n |-> rows[f[i]]] : f \in
            {g \in perms : \A i \in 1..(n - 1) :
                              InOrder(rows[g[i]][by], rows[g[i + 1]][by])}}

\* pd.DataFrame(optimization_results), sorted if it has rows, is returned
OptimizeSort ==
    /\ caller = "sort"
    /\ caller' = "returned"
    /\ optimization_df' \in Rankings(optimization_results, metric)
    /\ UNCHANGED <<p, initial_cash, loaderVars, compareVars, engineVars, feed, log, param_ranges, metric,
                   todo, optimization_results, failed>>

InitOptimize ==
    /\ param_ranges \in Sweeps
    /\ p = StrategyParams(param_ranges.strategy_class,
                          Combinations(param_ranges)[1])
    /\ initial_cash = Money(MaxCash)
    /\ Idle
    /\ caller = "load"
    /\ feed = <<>>
    /\ log = <<>>
    /\ metric = ""
    /\ todo = Combinations(param_ranges)
    /\ optimization_results = <<>>
    /\ optimization_df = <<>>
    /\ failed = <<>>
    /\ NoCompare
    /\ NoFrame

NextOptimize ==
    \/ LoadBar
    \/ ReferenceRun
    \/ ReferenceNext
    \/ Optimize
    \/ OptimizeReturn
    \/ OptimizeExcept
    \/ OptimizeSort
    \/ Replay
    \/ FeedEnd
    \/ BrokerCheckSubmitted
    \/ BrokerExecute
    \/ NotifyOrder
    \/ Prenext
    \/ MovingAverageCrossNext
    \/ RSINext
    \/ AnalyzerNext

SpecOptimize == InitOptimize /\ [][NextOptimize]_vars

\* ------------------------------------------- the sweep and the calendar ---
\* The same caller with a feed of one calendar year, or of two with the
\* second year beginning at the feed's last but one bar
NewYears == {0, MaxBars - 1}

InitSharpe ==
    /\ param_ranges \in Sweeps
    /\ p = StrategyParams(param_ranges.strategy_class,
                          Combinations(param_ranges)[1])
    /\ initial_cash \in InitialCash
    /\ Idle
    /\ caller = "load"
    /\ feed = <<>>
    /\ log = <<>>
    /\ metric = ""
    /\ todo = Combinations(param_ranges)
    /\ optimization_results = <<>>
    /\ optimization_df = <<>>
    /\ failed = <<>>
    /\ NoCompare
    /\ NoLoader
    /\ new_year \in NewYears

SpecSharpe == InitSharpe /\ [][NextOptimize]_vars

\* -------------------------------------------------- compare_strategies ---
\* A caller creates one data feed and passes it to compare_strategies with
\* a list of (name, strategy_class, params) entries.

\* the names the caller gives its entries
CompareNames == {"A", "B"}

\* the strategies and params the caller compares
CompareConfigs ==
    {[variant |-> "MovingAverageCross", fast_period |-> 1, slow_period |-> 2],
     [variant |-> "RSI", rsi_period |-> 2, rsi_low |-> 30, rsi_high |-> 60],
     [variant |-> "BuyHold"]}

CompareEntries == [name : CompareNames, config : CompareConfigs]

\* the lists the caller passes: one entry or two, names and configs free
StrategyConfigLists ==
    {<<e>> : e \in CompareEntries} \cup
    {<<e[1], e[2]>> : e \in CompareEntries \X CompareEntries}

\* The column compare_strategies sorts by.  bt.analyzers.Returns gives
\* rnorm100 = 100 * expm1(log(final / start) / bars * 252): among runs on
\* one feed from one initial cash it orders the rows as the total return
\* does, and the rows are compared by that.
AnnualReturnOrder == "Total Return (%)"

\* results_dict[name] = metrics: the value of a name already present is
\* replaced in place, a new name is added at the end
SetItem(dict, name, metrics) ==
    IF \E i \in DOMAIN dict : dict[i].name = name
    THEN [i \in DOMAIN dict |->
             IF dict[i].name = name THEN [name |-> name, metrics |-> metrics]
             ELSE dict[i]]
    ELSE Append(dict, [name |-> name, metrics |-> metrics])

\* pd.DataFrame.from_dict(results_dict, orient='index'): one row per item
FromDict(dict) ==
    [i \in DOMAIN dict |-> [name |-> dict[i].name] @@ dict[i].metrics]

\* The caller calls compare_strategies(strategy_configs, data_feed); the
\* first entry is run
Compare ==
    /\ caller = "load"
    /\ feed # <<>>
    /\ caller' = "compare"
    /\ todo' = strategy_configs
    /\ StartEngine
    /\ UNCHANGED <<p, initial_cash, loaderVars, feed, log, param_ranges, metric,
                   optimization_results, optimization_df, failed, compareVars>>

\* run_strategy_and_get_metrics returned: the metrics are stored under the
\* entry's name and the loop goes on to the next entry, or ends
CompareReturn ==
    /\ caller = "compare"
    /\ pc = "done"
    /\ log' = Append(log, RunResult)
    /\ results_dict' = SetItem(results_dict, Head(todo).name,
                               MetricsOf(value, equity, initial_cash))
    /\ todo' = Tail(todo)
    /\ IF Tail(todo) # <<>>
       THEN /\ p' = todo[2].config
            /\ StartEngine
            /\ caller' = "compare"
       ELSE /\ caller' = "compare_sort"
            /\ UNCHANGED <<p, engineVars>>
    /\ UNCHANGED <<initial_cash, loaderVars, feed, param_ranges, metric,
                   optimization_results, optimization_df, failed, strategy_configs,
                   performance_df>>

\* run_strategy_and_get_metrics raised: nothing catches it, so
\* compare_strategies raises to its caller and returns no table
CompareRaise ==
    /\ caller = "compare"
    /\ pc = "raised"
    /\ log' = Append(log, RunResult)
    /\ caller' = "raised"
    /\ UNCHANGED <<p, initial_cash, loaderVars, engineVars, feed, optimizerVars,
                   compareVars>>

\* the DataFrame built from results_dict is sorted and returned
CompareSort ==
    /\ caller = "compare_sort"
    /\ caller' = "returned"
    /\ performance_df' \in Rankings(FromDict(results_dict), AnnualReturnOrder)
    /\ UNCHANGED <<p, initial_cash, loaderVars, engineVars, feed, log, optimizerVars,
                   strategy_configs, results_dict>>

InitCompare ==
    /\ strategy_configs \in StrategyConfigLists
    /\ p = strategy_configs[1].config
    /\ initial_cash \in InitialCash
    /\ Idle
    /\ caller = "load"
    /\ feed = <<>>
    /\ log = <<>>
    /\ NoSweep
    /\ results_dict = <<>>
    /\ performance_df = <<>>
    /\ NoFrame

NextCompare ==
    \/ LoadBar
    \/ Compare
    \/ CompareReturn
    \/ CompareRaise
    \/ CompareSort
    \/ Replay
    \/ FeedEnd
    \/ BrokerCheckSubmitted
    \/ BrokerExecute
    \/ NotifyOrder
    \/ Prenext
    \/ MovingAverageCrossNext
    \/ RSINext
    \/ BuyHoldNext
    \/ AnalyzerNext

SpecCompare == InitCompare /\ [][NextCompare]_vars

\* --------------------------------------------------------- data loader ---
\* A caller builds a frame of daily rows, passes it through
\* DataLoader._validate_and_fix_data, creates a data feed from what comes
\* back and runs BuyHold on it, as test_backtest_utils does with the frame
\* of test_data_loader.
\* Volume is a fraction <<numerator, denominator>>.

\* the longest frame the caller builds
FrameRows == MaxBars - 3

\* what is wrong with a row, if anything
Defects == {"none", "date_repeated", "date_back", "open_zero", "high_below",
            "low_above", "volume_negative", "volume_fraction"}

Min(a, b) == IF a <= b THEN a ELSE b

\* the row that follows the rows of a frame, with the close given
FrameRow(rows, c, defect) ==
    LET last == Len(rows)
        day == IF last = 0 THEN 1 ELSE rows[last].Date + 1
        o == IF last = 0 THEN c ELSE rows[last].Close
    IN  [Date |-> IF defect = "date_repeated" THEN day - 1
                  ELSE IF defect = "date_back" THEN day - 2 ELSE day,
         Open |-> IF defect = "open_zero" THEN 0 ELSE o,
         High |-> IF defect = "high_below" THEN Min(o, c) - 1 ELSE Max(o, c),
         Low |-> IF defect = "low_above" THEN Max(o, c) + 1 ELSE Min(o, c),
         Close |-> c,
         Volume |-> IF defect = "volume_negative" THEN <<-1, 1>>
                    ELSE IF defect = "volume_fraction" THEN <<3, 2>>
                    ELSE <<1, 1>>]

\* astype(int) of a float: the fraction is cut off towards zero
AsInt(q) ==
    IF q[1] >= 0 THEN <<q[1] \div q[2], 1>> ELSE <<-((-q[1]) \div q[2]), 1>>

\* does the row (or its place after the row before it) break the ordering
\* or range rules of a bar series
RowInvalid(rows, i) ==
    \/ i > 1 /\ rows[i].Date <= rows[i - 1].Date
    \/ rows[i].Open <= 0
    \/ rows[i].High <= 0
    \/ rows[i].Low <= 0
    \/ rows[i].Close <= 0
    \/ rows[i].High < Max(rows[i].Open, Max(rows[i].Close, rows[i].Low))
    \/ rows[i].Low > Min(rows[i].Open, Min(rows[i].Close, rows[i].High))
    \/ rows[i].Volume[1] < 0

Invalid(rows) == \E i \in DOMAIN rows : RowInvalid(rows, i)

\* The caller adds a row to the frame
AddRow ==
    /\ caller = "frame"
    /\ Len(stock_data) < FrameRows
    /\ \E c \in Prices, defect \in Defects :
          stock_data' = Append(stock_data, FrameRow(stock_data, c, defect))
    /\ UNCHANGED <<p, initial_cash, engineVars, caller, feed, log,
                   optimizerVars, compareVars, fixed_data, new_year>>

\* a validation that repairs the frame by leaving out the rows that break
\* a rule
ValidateAndDrop ==
    /\ caller = "frame"
    /\ stock_data # <<>>
    /\ fixed_data' =
           LET keep == {i \in DOMAIN stock_data : ~ RowInvalid(stock_data, i)}
               place(k) == CHOOSE i \in keep :
                               Cardinality({j \in keep : j < i}) = k - 1
           IN  [k \in 1..Cardinality(keep) |->
                   [stock_data[place(k)] EXCEPT
                       !.Volume = AsInt(stock_data[place(k)].Volume)]]
    /\ caller' = "validated"
    /\ UNCHANGED <<p, initial_cash, engineVars, feed, log, optimizerVars,
                   compareVars, stock_data, new_year>>

\* _validate_and_fix_data: Volume is converted to int and the prices to
\* float; nothing is tested, no row is dropped or moved
ValidateAndFix ==
    /\ caller = "frame"
    /\ stock_data # <<>>
    /\ fixed_data' = [i \in DOMAIN stock_data |->
                         [stock_data[i] EXCEPT
                             !.Volume = AsInt(stock_data[i].Volume)]]
    /\ caller' = "validated"
    /\ UNCHANGED <<p, initial_cash, engineVars, feed, log, optimizerVars,
                   compareVars, stock_data, new_year>>

\* create_bt_data_feed(fixed_data) and run_backtest up to cerebro.run()
CreateFeed ==
    /\ caller = "validated"
    /\ fixed_data # <<>>
    /\ feed' = [i \in DOMAIN fixed_data |->
                   [open |-> fixed_data[i].Open, close |-> fixed_data[i].Close]]
    /\ caller' = "run_backtest"
    /\ StartEngine
    /\ UNCHANGED <<p, initial_cash, log, optimizerVars, compareVars,
                   loaderVars>>

InitValidate ==
    /\ p = [variant |-> "BuyHold"]
    /\ initial_cash \in InitialCash
    /\ Idle
    /\ caller = "frame"
    /\ feed = <<>>
    /\ log = <<>>
    /\ NoSweep
    /\ NoCompare
    /\ NoFrame

NextValidate ==
    \/ AddRow
    \/ ValidateAndFix
    \/ CreateFeed
    \/ Replay
    \/ FeedEnd
    \/ BrokerCheckSubmitted
    \/ BrokerExecute
    \/ NotifyOrder
    \/ BuyHoldNext
    \/ AnalyzerNext

SpecValidate == InitValidate /\ [][NextValidate]_vars

\* ------------------------------------------------ unrecognized options ---
\* A caller creates one data feed, calls run_backtest with keyword
\* arguments for the strategy and then optimize_parameters with a grid over
\* the same names; a name may be one the strategy class does not declare.

\* an engine that leaves out the keyword arguments the class does not
\* declare and goes on
StrategyInitIgnores ==
    /\ pc = "advance"
    /\ closes = <<>>
    /\ Undeclared(p) # {}
    /\ p' = [name \in DOMAIN p \ Undeclared(p) |-> p[name]]
    /\ UNCHANGED <<initial_cash, engineVars, callerVars>>

\* cerebro.run() instantiates the strategy before the first bar: a keyword
\* argument that is no param reaches __init__(self), which raises TypeError
StrategyInitRaises ==
    /\ pc = "advance"
    /\ closes = <<>>
    /\ Undeclared(p) # {}
    /\ pc' = "raised"
    /\ UNCHANGED <<p, initial_cash, closes, open, cash, position, value, orders,
                   submitted, pending, notifs, self_order, trade, trades, equity>>
    /\ UNCHANGED callerVars

\* the grids of this caller
OptionSweeps ==
    {[strategy_class |-> "MovingAverageCross",
      names |-> <<"fast_period", "slow_period">>,
      values |-> << <<1, 2>>, <<2>> >>],
     [strategy_class |-> "MovingAverageCross",
      names |-> <<"fast_period", "period">>,
      values |-> << <<1, 2>>, <<2>> >>]}

\* run_backtest has returned or raised (the caller catches it, as
\* test_backtest_utils does) and the caller calls optimize_parameters
OptimizeAfterBacktest ==
    /\ caller = "first"
    /\ Finished
    /\ log' = Append(log, RunResult)
    /\ caller' = "optimize"
    /\ \E name \in MetricNames : metric' = name
    /\ todo' = Combinations(param_ranges)
    /\ p' = StrategyParams(param_ranges.strategy_class,
                           Combinations(param_ranges)[1])
    /\ optimization_results' = <<>>
    /\ failed' = <<>>
    /\ StartEngine
    /\ UNCHANGED <<initial_cash, feed, param_ranges, optimization_df,
                   compareVars, loaderVars>>

InitOptions ==
    /\ param_ranges \in OptionSweeps
    /\ p = StrategyParams(param_ranges.strategy_class,
                          Combinations(param_ranges)[1])
    /\ initial_cash \in InitialCash
    /\ Idle
    /\ caller = "load"
    /\ feed = <<>>
    /\ log = <<>>
    /\ metric = ""
    /\ todo = <<>>
    /\ optimization_results = <<>>
    /\ optimization_df = <<>>
    /\ failed = <<>>
    /\ NoCompare
    /\ NoFrame

NextOptions ==
    \/ LoadBar
    \/ FirstRun
    \/ OptimizeAfterBacktest
    \/ OptimizeReturn
    \/ OptimizeExcept
    \/ OptimizeSort
    \/ StrategyInitRaises
    \/ Replay
    \/ FeedEnd
    \/ BrokerCheckSubmitted
    \/ BrokerExecute
    \/ NotifyOrder
    \/ Prenext
    \/ MovingAverageCrossNext
    \/ AnalyzerNext

SpecOptions == InitOptions /\ [][NextOptions]_vars

\* ------------------------------------------------------------ claims ---
OrderIds == 1..Len(orders)

Outstanding == {i \in OrderIds : orders[i].status \notin Terminal}

\* the bar has been processed to its end: its equity point is recorded
BarClosed == pc \in {"advance", "done"} /\ closes # <<>>

RECURSIVE FilledSize(_, _)
FilledSize(side, n) ==
    IF n = 0 THEN 0
    ELSE FilledSize(side, n - 1)
         + (IF orders[n].side = side /\ orders[n].status = "Completed"
            THEN orders[n].size ELSE 0)

\* C1: the equity recorded for a bar equals broker cash plus the position
\* size times that bar's close, one point per bar, whatever orders were
\* filled or refused before.
C1_EquityReconciles ==
    pc \in {"advance", "done"} =>
        /\ Len(equity) = Len(closes)
        /\ equity # <<>> => equity[Len(equity)] = cash + position * Money(Close)

\* A bar closed with shares held after an earlier order ended in Margin.
C1_Witness ==
    /\ BarClosed
    /\ position > 0
    /\ \E i \in OrderIds : orders[i].status = "Margin"
    /\ equity[Len(equity)] > cash

\* C2: the position size is never negative and never exceeds the completed
\* Buy sizes minus the completed Sell sizes.
C2_PositionBounds ==
    /\ position >= 0
    /\ position <= FilledSize("Buy", Len(orders)) - FilledSize("Sell", Len(orders))

\* A completed Buy was followed by a completed Sell of the same size.
C2_Witness ==
    /\ position = 0
    /\ FilledSize("Sell", Len(orders)) > 0
    /\ FilledSize("Buy", Len(orders)) = FilledSize("Sell", Len(orders))

\* C3: at most one order is outstanding (not in a terminal status) at any
\* time, for every variant.
C3_OneOutstandingOrder == Cardinality(Outstanding) <= 1

\* A second order is outstanding after the first one ended.
C3_Witness ==
    /\ Len(orders) >= 2
    /\ Cardinality(Outstanding) = 1
    /\ orders[1].status \in Terminal

\* the strategy is about to run next() on the current bar
NextRuns == pc = "strategy" /\ notifs = <<>> /\ Len(closes) >= MinPeriod(p)

Refused == {"Margin", "Rejected", "Canceled"}

\* the variant's triggers on the current bar, from the trigger table
BuyTrigger ==
    CASE p.variant = "MovingAverageCross" ->
             MACrossover(closes, p.fast_period, p.slow_period) > 0
      [] p.variant = "RSI" -> RSIBelow(closes, p.rsi_period, p.rsi_low)
      [] p.variant = "BollingerBands" -> BelowBottom(closes, p.period, p.devfactor)
      [] p.variant = "MACD" ->
             MACDCrossover(closes, p.fastperiod, p.slowperiod, p.signalperiod) > 0
      [] OTHER -> TRUE

SellTrigger ==
    CASE p.variant = "MovingAverageCross" ->
             MACrossover(closes, p.fast_period, p.slow_period) < 0
      [] p.variant = "RSI" -> RSIAbove(closes, p.rsi_period, p.rsi_high)
      [] p.variant = "BollingerBands" -> AboveTop(closes, p.period, p.devfactor)
      [] p.variant = "MACD" ->
             MACDCrossover(closes, p.fastperiod, p.slowperiod, p.signalperiod) < 0
      [] OTHER -> FALSE

\* C4 as claimed: an order submitted on bar i is terminal before bar i's
\* equity point is recorded, and a completed order filled on its own bar
\* at that bar's close.
C4_SameBarSettlement ==
    \A i \in OrderIds :
        /\ BarClosed => orders[i].status \in Terminal
        /\ orders[i].status = "Completed" =>
              /\ orders[i].execbar = orders[i].bar
              /\ orders[i].execprice = closes[orders[i].bar + 1]

\* C4 (amended): an order submitted on bar i is still Submitted when bar
\* i's equity point is recorded; it reaches a terminal status in the broker
\* step of bar i+1, before the strategy runs on bar i+1; if Completed it
\* filled on bar i+1 at that bar's open.
C4_NextBarSettlement ==
    \A i \in OrderIds :
        /\ orders[i].bar = Bar => orders[i].status = "Submitted"
        /\ orders[i].bar < Bar /\ pc \in {"strategy", "analyzer", "advance", "done"}
              => orders[i].status \in Terminal
        /\ orders[i].status = "Completed" =>
              /\ orders[i].execbar = orders[i].bar + 1
              /\ orders[i].execbar = Bar => orders[i].execprice = open

\* An order filled on the bar after its own, at an open that differs from
\* both closes.
C4_Witness ==
    \E i \in OrderIds :
        /\ orders[i].status = "Completed"
        /\ orders[i].execbar = Bar
        /\ orders[i].execprice # closes[orders[i].bar + 1]
        /\ orders[i].execprice # Close

\* C5: an order that ends in Margin, Rejected or Canceled fills nothing:
\* cash, position and the trade ledger change only in a step that
\* completes an order; the notification of the refusal clears self.order;
\* and when next() then runs on a bar where the trigger fires (flat, buy
\* trigger, at least one share affordable; or long, sell trigger) a new
\* order is submitted.
C5_RefusedOrderRetried ==
    [][/\ (\A i \in OrderIds :
              orders'[i].status = "Completed" => orders[i].status = "Completed")
          => cash' = cash /\ position' = position /\ trades' = trades
       /\ (pc = "strategy" /\ notifs # <<>> /\ Head(notifs).status \in Refused)
          => self_order' = 0
       /\ (/\ NextRuns
           /\ \E i \in OrderIds : orders[i].status \in Refused
           /\ \/ position = 0 /\ BuyTrigger /\ cash >= Money(Close)
              \/ position > 0 /\ SellTrigger)
          => Len(orders') = Len(orders) + 1 /\ self_order' = Len(orders')
      ]_vars

\* An indicator strategy submitted a new order after one ended in Margin.
C5_Witness ==
    /\ p.variant # "BuyHold"
    /\ Len(orders) >= 2
    /\ orders[1].status = "Margin"
    /\ self_order = Len(orders)

\* C6 as claimed: every order reaches a terminal status by the end of the
\* run.
C6_EveryOrderEnds ==
    pc = "done" => \A i \in OrderIds : orders[i].status \in Terminal

\* C6 (amended): an order enters as Submitted and moves only Submitted ->
\* Accepted, Submitted -> Margin, Accepted -> Completed or Accepted ->
\* Margin; a terminal notification clears self.order, a Submitted or
\* Accepted one leaves it; self.order is clear whenever next() runs; at the
\* end of the run every order is terminal except one submitted on the last
\* bar, which is still Submitted.
C6_Lifecycle ==
    [][/\ \A i \in OrderIds :
              orders'[i].status # orders[i].status =>
                 <<orders[i].status, orders'[i].status>> \in
                    {<<"Submitted", "Accepted">>, <<"Submitted", "Margin">>,
                     <<"Accepted", "Completed">>, <<"Accepted", "Margin">>}
       /\ Len(orders') > Len(orders) =>
              /\ Len(orders') = Len(orders) + 1
              /\ orders'[Len(orders')].status = "Submitted"
       /\ (pc = "strategy" /\ notifs # <<>>) =>
              self_order' = IF Head(notifs).status \in Terminal THEN 0
                            ELSE self_order
       /\ (pc' = "strategy" /\ notifs' = <<>>) => self_order' = 0
       /\ pc' = "done" =>
              \A i \in OrderIds :
                  \/ orders'[i].status \in Terminal
                  \/ orders'[i].bar = Bar /\ orders'[i].status = "Submitted"
      ]_vars

\* The run ended with an order submitted on the last bar still Submitted,
\* after an earlier order went Accepted and then Margin or Completed.
C6_Witness ==
    /\ pc = "done"
    /\ Len(orders) >= 2
    /\ orders[Len(orders)].status = "Submitted"
    /\ orders[1].status \in Terminal

\* C7: a Buy is issued only when flat, for exactly floor(cash / close) of
\* the bar it is issued on, and only if that is at least one share; a Sell
\* is issued only when long, for exactly the position size.  (Cash and
\* position are those of the submission while the order is outstanding.)
C7_SizingRule ==
    \A i \in Outstanding :
        IF orders[i].side = "Buy"
        THEN /\ position = 0
             /\ orders[i].price = closes[orders[i].bar + 1]
             /\ orders[i].size >= 1
             /\ orders[i].size * Money(orders[i].price) <= cash
             /\ cash < (orders[i].size + 1) * Money(orders[i].price)
        ELSE /\ position > 0
             /\ orders[i].size = position

\* A Sell of the whole position is outstanding after a completed Buy, with
\* cash left over that would not buy another share.
C7_Witness ==
    /\ Len(orders) >= 2
    /\ \E i \in OrderIds : orders[i].side = "Buy" /\ orders[i].status = "Completed"
    /\ cash > 0
    /\ orders[Len(orders)].side = "Sell"
    /\ Len(orders) \in Outstanding

RECURSIVE StrictlyIncreasing(_)
StrictlyIncreasing(cs) ==
    Len(cs) <= 1 \/ (cs[1] < cs[2] /\ StrictlyIncreasing(Tail(cs)))

\* C8 as claimed: a Buy is accepted exactly when size * price * (1 +
\* commission) is within cash, and the Buy a strategy issues with full-cash
\* sizing never ends in Margin.
C8_FullCashBuyFilled ==
    \A i \in OrderIds :
        orders[i].side = "Buy" =>
            /\ (pc = "execute" /\ orders[i].bar = Bar - 1) =>
                  (orders[i].status = "Accepted" <=>
                      GetOperationCost(orders[i].size, orders[i].price)
                        + GetCommission(orders[i].size, orders[i].price) <= cash)
            /\ orders[i].status # "Margin"

\* C9 as claimed: BuyHold issues Buy orders on bar 0 only, and no Sell.
C9_BuyHoldFirstBarOnly ==
    p.variant = "BuyHold" =>
        \A i \in OrderIds : orders[i].side = "Buy" /\ orders[i].bar = 0

\* C10 as claimed: on a strictly increasing close series BuyHold holds
\* floor(initial_cash / close[0]) shares from bar 0 on, and the equity of
\* every bar is cash plus that many shares at the bar's close.
C10_BuyHoldHoldsFromFirstBar ==
    (p.variant = "BuyHold" /\ BarClosed /\ StrictlyIncreasing(closes)) =>
        /\ position = FullCashSize(initial_cash, closes[1])
        /\ equity[Len(equity)] =
              cash + FullCashSize(initial_cash, closes[1]) * Money(Close)

\* The number of bars an indicator-based variant's lookback window spans:
\* the slower average of MovingAverageCross, the period changes of RSI, the
\* period closes of BollingerBands, the slow average plus the signal
\* average of MACD.
LookbackBars(q) ==
    CASE q.variant = "MovingAverageCross" -> Max(q.fast_period, q.slow_period)
      [] q.variant = "RSI" -> q.rsi_period + 1
      [] q.variant = "BollingerBands" -> q.period
      [] q.variant = "MACD" -> Max(q.fastperiod, q.slowperiod) + q.signalperiod - 1
      [] OTHER -> 1

\* C11: no order is submitted on a bar on which the variant's lookback
\* window is not yet full; for MovingAverageCross(f, s) no order carries a
\* 0-based bar index below max(f, s) - 1.
C11_WarmUp ==
    \A i \in OrderIds :
        /\ orders[i].bar + 1 >= LookbackBars(p)
        /\ p.variant = "MovingAverageCross" =>
              orders[i].bar >= Max(p.fast_period, p.slow_period) - 1

\* An indicator-based variant submitted an order on the first bar on which
\* its next() ran.
C11_Witness ==
    /\ p.variant \in {"MovingAverageCross", "RSI", "BollingerBands", "MACD"}
    /\ orders # <<>>
    /\ orders[1].bar = MinPeriod(p) - 1

ConstantSeries(cs) == \A i \in 1..Len(cs) : cs[i] = cs[1]

\* C12: on a constant-close series MovingAverageCross, whatever its
\* periods, submits no order, the trade ledger stays empty, and the equity
\* of every bar equals the initial cash.
C12_ConstantSeriesNoTrade ==
    (p.variant = "MovingAverageCross" /\ ConstantSeries(closes)) =>
        /\ orders = <<>>
        /\ trades = <<>>
        /\ \A i \in 1..Len(equity) : equity[i] = initial_cash

\* A run over a constant series of full length has ended, next() having
\* run on at least two bars with distinct periods.
C12_Witness ==
    /\ pc = "done"
    /\ p.variant = "MovingAverageCross"
    /\ p.fast_period # p.slow_period
    /\ ConstantSeries(closes)
    /\ Len(closes) = MaxBars
    /\ Len(equity) = MaxBars

\* the sides of the completed orders, in order of completion (orders
\* complete in the order of their creation)
RECURSIVE FillSides(_)
FillSides(os) ==
    IF os = <<>> THEN <<>>
    ELSE IF Head(os).status = "Completed"
         THEN <<Head(os).side>> \o FillSides(Tail(os))
         ELSE FillSides(Tail(os))

Alternates(sides) ==
    \A k \in 1..Len(sides) : sides[k] = IF k % 2 = 1 THEN "Buy" ELSE "Sell"

\* the bars (1-based) on which RSI's next() saw the RSI below rsi_low, and
\* those on which it saw it above rsi_high
DipBars ==
    {n \in MinPeriod(p)..Len(closes) :
        RSIBelow(SubSeq(closes, 1, n), p.rsi_period, p.rsi_low)}

PeakBars ==
    {n \in MinPeriod(p)..Len(closes) :
        RSIAbove(SubSeq(closes, 1, n), p.rsi_period, p.rsi_high)}

\* a finished RSI run over a series that dips below rsi_low and afterwards
\* recovers above rsi_high, the first time before the last bar
DipThenRecover ==
    /\ p.variant = "RSI"
    /\ pc = "done"
    /\ DipBars # {}
    /\ \E n \in PeakBars : n < Len(closes)
    /\ \A d \in DipBars, n \in PeakBars : d < n

\* C13 as claimed: the completed fills alternate Buy, Sell, Buy, ...
\* starting with a Buy, and in the RSI dip-then-recover scenario there is
\* exactly one Buy fill followed by exactly one Sell fill.
C13_FillsAlternate ==
    /\ Alternates(FillSides(orders))
    /\ DipThenRecover => FillSides(orders) = <<"Buy", "Sell">>

\* the alternation alone
FillsAlternateOnly == Alternates(FillSides(orders))

\* the ledger is in step with the fills: as many closed trades as
\* completed Sell orders, every trade opened no later than it closed, and
\* every trade (the open one included) entered at or after the exit of the
\* trade before it
LedgerInStep ==
    /\ Len(trades) = Cardinality({i \in OrderIds :
                                    /\ orders[i].side = "Sell"
                                    /\ orders[i].status = "Completed"})
    /\ \A k \in 1..Len(trades) : trades[k].baropen <= trades[k].barclose
    /\ \A k \in 1..(Len(trades) - 1) : trades[k + 1].baropen >= trades[k].barclose
    /\ (trade.isopen /\ trades # <<>>) =>
          trade.baropen >= trades[Len(trades)].barclose

\* C14: a trade is appended to the ledger exactly in the step in which a
\* Sell completes and leaves the position at 0, so the closed trades are as
\* many as the completed Sell fills, and ledger entries do not overlap:
\* each trade's entry bar is at or after the exit bar of the one before.
C14_TradeLedger ==
    [][/\ Len(trades') # Len(trades) <=>
             /\ position' = 0
             /\ \E i \in OrderIds :
                   /\ orders[i].side = "Sell"
                   /\ orders[i].status # "Completed"
                   /\ orders'[i].status = "Completed"
       /\ Len(trades') # Len(trades) =>
             /\ Len(trades') = Len(trades) + 1
             /\ SubSeq(trades', 1, Len(trades)) = trades
       /\ LedgerInStep'
      ]_vars

\* Two closed round trips, the second entered after the first was exited.
C14_Witness ==
    /\ Len(trades) = 2
    /\ trades[2].baropen >= trades[1].barclose
    /\ trades[2].barclose > trades[2].baropen

RECURSIVE CashThrough(_, _, _)
CashThrough(os, b, start) ==
    IF os = <<>> THEN start
    ELSE LET o == Head(os)
             filled == o.status = "Completed" /\ o.execbar <= b
             amount == GetOperationCost(o.size, o.execprice)
             comm == GetCommission(o.size, o.execprice)
         IN CashThrough(Tail(os), b,
                IF ~filled THEN start
                ELSE IF o.side = "Buy" THEN start - amount - comm
                ELSE start + amount - comm)

RECURSIVE PositionThrough(_, _)
PositionThrough(os, b) ==
    IF os = <<>> THEN 0
    ELSE LET o == Head(os)
             filled == o.status = "Completed" /\ o.execbar <= b
         IN PositionThrough(Tail(os), b)
              + (IF ~filled THEN 0 ELSE IF o.side = "Buy" THEN o.size ELSE -o.size)

\* what the strategy decided when it created an order
Decision(o) == [bar |-> o.bar, side |-> o.side, size |-> o.size, price |-> o.price]

SweepNames == {param_ranges.names[i] : i \in DOMAIN param_ranges.names}

\* the Cartesian product of the value lists, as a set of params dicts
Grid ==
    {d \in [SweepNames ->
               UNION {{param_ranges.values[i][k] :
                          k \in DOMAIN param_ranges.values[i]} :
                      i \in DOMAIN param_ranges.values}] :
        \A i \in DOMAIN param_ranges.names :
            \E k \in DOMAIN param_ranges.values[i] :
                d[param_ranges.names[i]] = param_ranges.values[i][k]}

\* the runs optimize_parameters made, in the order it made them
Attempts == SelectSeq(log, LAMBDA r : r.caller = "optimize")

\* the runs the caller made on its own, one per combination
References == SelectSeq(log, LAMBDA r : r.caller = "reference")

\* the combination a run was given
ParamsOf(r) == [name \in SweepNames |-> r.p[name]]

\* the places of the rows of a table that carry a combination
RowsFor(rows, d) ==
    {i \in DOMAIN rows : \A name \in SweepNames : rows[i][name] = d[name]}

\* the metrics a row carries
RowMetrics(row) == [name \in MetricNames |-> row[name]]

\* C17 as stated: the table optimize_parameters returns has exactly one row
\* for every combination of the grid.
C17_OneRowPerCombination ==
    caller = "returned" =>
        \A d \in Grid : Cardinality(RowsFor(optimization_df, d)) = 1

\* C17: optimize_parameters runs every combination of the Cartesian product
\* of the value lists exactly once, and the table it returns has exactly one
\* row for each combination whose run returned, carrying that combination's
\* params and the metrics of its own run, and no row for a combination
\* whose run raised.
C17_OneRowPerReturnedRun ==
    caller = "returned" =>
        /\ Len(Attempts) = Cardinality(Grid)
        /\ \A d \in Grid : \E i \in DOMAIN Attempts : ParamsOf(Attempts[i]) = d
        /\ \A i \in DOMAIN Attempts :
              LET a == Attempts[i]
                  rows == RowsFor(optimization_df, ParamsOf(a))
              IN  IF a.outcome = "done"
                  THEN /\ Cardinality(rows) = 1
                       /\ \A j \in rows :
                             RowMetrics(optimization_df[j]) =
                                 MetricsOf(a.value, a.equity, initial_cash)
                  ELSE rows = {}

\* C17 witness: a sweep returned a table with a row for each of the four
\* combinations of a two by two grid, and the rows differ in a metric.
C17_Witness ==
    /\ caller = "returned"
    /\ Cardinality(Grid) = 4
    /\ Len(optimization_df) = 4
    /\ \E i, j \in DOMAIN optimization_df :
          optimization_df[i]["Final Value"] # optimization_df[j]["Final Value"]

\* C18: a combination whose run raises does not end the sweep: every
\* combination is still attempted, in the order of the grid, and the row of
\* every other combination is what a run of that combination alone gives.
C18_FailureIsolated ==
    caller = "returned" =>
        \A i \in DOMAIN Attempts :
            Attempts[i].outcome = "raised" =>
                /\ Len(Attempts) = Len(References)
                /\ \A j \in DOMAIN Attempts :
                      /\ Attempts[j].p = References[j].p
                      /\ (j # i /\ References[j].outcome = "done") =>
                            \E k \in DOMAIN optimization_df :
                                optimization_df[k] =
                                    ParamsOf(References[j]) @@
                                    MetricsOf(References[j].value,
                                              References[j].equity,
                                              initial_cash)

\* C18 witness: a sweep returned although the run of a combination raised,
\* and a combination attempted after it has its row.
C18_Witness ==
    /\ caller = "returned"
    /\ \E i, j \in DOMAIN Attempts :
          /\ i < j
          /\ Attempts[i].outcome = "raised"
          /\ Attempts[j].outcome = "done"
          /\ RowsFor(optimization_df, ParamsOf(Attempts[j])) # {}

\* C19 as stated: a combination whose run raised appears as a row of the
\* returned table.
C19_FailedRowsKept ==
    caller = "returned" =>
        \A i \in DOMAIN Attempts :
            Attempts[i].outcome = "raised" =>
                RowsFor(optimization_df, ParamsOf(Attempts[i])) # {}

\* C19: a combination whose run raised is left out of the collected rows and
\* of the returned table: the rows are those of the runs that returned, one
\* each, and nothing else.
C19_FailedRunsLeaveNoRow ==
    caller \in {"optimize", "sort", "returned"} =>
        /\ Len(optimization_results) =
               Cardinality({i \in DOMAIN Attempts : Attempts[i].outcome = "done"})
        /\ \A i \in DOMAIN Attempts :
              Attempts[i].outcome = "raised" =>
                  RowsFor(optimization_results, ParamsOf(Attempts[i])) = {}
        /\ caller = "returned" =>
              /\ Len(optimization_df) = Len(optimization_results)
              /\ \A i \in DOMAIN Attempts :
                    Attempts[i].outcome = "raised" =>
                        RowsFor(optimization_df, ParamsOf(Attempts[i])) = {}

\* C19 witness: a sweep in which a run raised returned a table with the rows
\* of the other combinations only.
C19_Witness ==
    /\ caller = "returned"
    /\ optimization_df # <<>>
    /\ Len(optimization_df) < Len(Attempts)
    /\ \E i \in DOMAIN Attempts : Attempts[i].outcome = "raised"

\* the place of a returned row among the collected rows, which are in the
\* order the combinations were attempted
AttemptOrder(row) ==
    CHOOSE i \in DOMAIN optimization_results : optimization_results[i] = row

\* no row of the table is followed by a row with a larger value
Descending(rows, by) ==
    \A i, j \in DOMAIN rows : i < j => ~ Less(rows[i][by], rows[j][by])

\* C20 as stated: the returned rows are in descending order of the metric,
\* and rows with equal values are in the order they were attempted.
C20_TiesInAttemptOrder ==
    caller = "returned" =>
        /\ Descending(optimization_df, metric)
        /\ \A i, j \in DOMAIN optimization_df :
              (i < j /\ optimization_df[i][metric] = optimization_df[j][metric])
                  => AttemptOrder(optimization_df[i]) <
                         AttemptOrder(optimization_df[j])

\* C20: the returned rows are the collected rows in descending order of the
\* metric the caller selected.
C20_RankedByMetric ==
    caller = "returned" =>
        /\ Len(optimization_df) = Len(optimization_results)
        /\ \A i \in DOMAIN optimization_results :
              \E j \in DOMAIN optimization_df :
                  optimization_df[j] = optimization_results[i]
        /\ Descending(optimization_df, metric)

\* C20 witness: the returned table is not in the order the rows were
\* collected in; it has rows with different values and rows with equal ones.
C20_Witness ==
    /\ caller = "returned"
    /\ optimization_df # optimization_results
    /\ \E i, j \in DOMAIN optimization_df :
          Less(optimization_df[j][metric], optimization_df[i][metric])
    /\ \E i, j \in DOMAIN optimization_df :
          i # j /\ optimization_df[i][metric] = optimization_df[j][metric]

UnrecognizedOption ==
    \E i \in DOMAIN param_ranges.names :
        param_ranges.names[i] \notin Declared(param_ranges.strategy_class)

\* C23 as stated: given an option name the class does not declare,
\* optimize_parameters raises to its caller: it attempts no further
\* combination and returns no table.
C23_BothEntryPointsRaise ==
    UnrecognizedOption => (Len(Attempts) <= 1 /\ caller # "returned")

\* C23: given an option name the class does not declare, every run raises
\* before a bar is processed; run_backtest raises to its caller, while
\* optimize_parameters catches the error of every combination and returns an
\* empty table.
C23_UnrecognizedOptionRaisesInRun ==
    UnrecognizedOption =>
        /\ closes = <<>>
        /\ \A i \in DOMAIN log :
              /\ log[i].outcome = "raised"
              /\ log[i].closes = <<>>
              /\ log[i].orders = <<>>
              /\ log[i].equity = <<>>
        /\ pc \in {"idle", "advance", "raised"}
        /\ caller \in {"sort", "returned"} =>
              /\ log[1].caller = "first"
              /\ Len(Attempts) = Len(Combinations(param_ranges))
              /\ optimization_results = <<>>
              /\ optimization_df = <<>>

\* C23 witness: run_backtest raised on an undeclared name, and
\* optimize_parameters returned an empty table after attempting both
\* combinations of the grid.
C23_Witness ==
    /\ UnrecognizedOption
    /\ caller = "returned"
    /\ log[1].caller = "first"
    /\ log[1].outcome = "raised"
    /\ Len(Attempts) = 2
    /\ optimization_df = <<>>

\* the runs compare_strategies made, in the order of its list
Compared == SelectSeq(log, LAMBDA r : r.caller = "compare")

\* the row of the table that the k-th entry of the list should have
EntryRow(k) ==
    [name |-> strategy_configs[k].name] @@
    MetricsOf(Compared[k].value, Compared[k].equity, initial_cash)

\* C24: when compare_strategies is over it has returned a table with
\* exactly one row for every entry of its list, carrying the entry's name
\* and the metrics of the entry's own run, in descending order of the
\* annual return.
C24_OneRowPerEntry ==
    caller \in {"returned", "raised"} =>
        /\ caller = "returned"
        /\ Len(performance_df) = Len(strategy_configs)
        /\ \A k \in DOMAIN strategy_configs :
              \E i \in DOMAIN performance_df : performance_df[i] = EntryRow(k)
        /\ Descending(performance_df, AnnualReturnOrder)

\* What holds of compare_strategies: if the names of the list are distinct
\* and no run raised, the table has one row per entry with the entry's own
\* metrics, in descending order.
OneRowPerDistinctName ==
    (/\ caller = "returned"
     /\ \A k, l \in DOMAIN strategy_configs :
           strategy_configs[k].name = strategy_configs[l].name => k = l) =>
        /\ Len(performance_df) = Len(strategy_configs)
        /\ \A k \in DOMAIN strategy_configs :
              \E i \in DOMAIN performance_df : performance_df[i] = EntryRow(k)
        /\ Descending(performance_df, AnnualReturnOrder)

\* A returned table in which an entry's metrics were replaced: two entries
\* have one name and runs that ended with different values.
EntryReplaced ==
    /\ caller = "returned"
    /\ Len(strategy_configs) = 2
    /\ strategy_configs[1].name = strategy_configs[2].name
    /\ Compared[1].value # Compared[2].value
    /\ Len(performance_df) = 1

\* the completed orders, in the order of their fills
Fills == SelectSeq(orders, LAMBDA o : o.status = "Completed")

\* cash after the fills: a Buy of n at price takes n * price * (1 + c), a
\* Sell of n at price gives n * price * (1 - c); in thousandths
RECURSIVE CashAfterFills(_, _)
CashAfterFills(fills, start) ==
    IF fills = <<>> THEN start
    ELSE LET o == Head(fills)
             notional == o.size * o.execprice
         IN  CashAfterFills(Tail(fills),
                 IF o.side = "Buy" THEN start - notional * (1000 + commission)
                 ELSE start + notional * (1000 - commission))

\* C25: commission is charged on both legs.  Cash is the initial cash less
\* n * p * (1 + c) for every completed Buy plus n * p * (1 - c) for every
\* completed Sell; the trade a closing Sell appends has a realized profit of
\* (fill price - cost price) * size less the commission of both legs; and
\* after round trips bought and sold at one price the account is flat with
\* less than it started with.
C25_CommissionBothLegs ==
    /\ cash = CashAfterFills(Fills, initial_cash)
    /\ Len(Fills) >= 2 * Len(trades)
    /\ \A k \in DOMAIN trades :
          LET buy == Fills[2 * k - 1]
              sell == Fills[2 * k]
          IN  /\ buy.side = "Buy"
              /\ sell.side = "Sell"
              /\ trades[k].size = buy.size
              /\ trades[k].pnlcomm =
                     (sell.execprice - buy.execprice) * buy.size * 1000
                     - (buy.size * buy.execprice + sell.size * sell.execprice)
                           * commission
              /\ sell.execprice = buy.execprice => trades[k].pnlcomm < 0
    /\ (/\ trades # <<>>
        /\ Len(Fills) = 2 * Len(trades)
        /\ \A k \in DOMAIN trades :
              Fills[2 * k].execprice = Fills[2 * k - 1].execprice)
          => /\ position = 0
             /\ cash < initial_cash

\* C25 witness: a round trip bought and sold at one price has been closed,
\* and the account is flat with less cash than it started with.
C25_Witness ==
    /\ Len(trades) = 1
    /\ Len(Fills) = 2
    /\ Fills[1].execprice = Fills[2].execprice
    /\ position = 0
    /\ cash < initial_cash
    /\ trades[1].pnl = 0

\* the first bar at which the two lines the strategy compares have a value
SignalStart ==
    IF p.variant = "MACD"
    THEN MACDStart(p.fastperiod, p.slowperiod, p.signalperiod)
    ELSE Max(p.fast_period, p.slow_period)

\* the sign of fast - slow (MovingAverageCross) or of macd - signal (MACD)
\* at the bars delivered so far, as a sequence; 0 before SignalStart
SignalDiff ==
    LET diff == IF p.variant = "MACD"
                THEN MACDDiff(closes, p.fastperiod, p.slowperiod, p.signalperiod)
                ELSE [i \in SignalStart..Len(closes) |->
                         MADiff(closes, i, p.fast_period, p.slow_period)]
    IN  <<>> \o [i \in 1..Len(closes) |->
                    IF i < SignalStart THEN 0 ELSE Sign(diff[i])]

\* the bars at which the crossover signal has a value
SignalBars == (SignalStart + 1)..Len(closes)

\* the difference d was of the given sign when it last was not zero before
\* bar i
LastNonZero(d, i, sign) ==
    \E j \in SignalStart..(i - 1) :
        /\ d[j] = sign
        /\ \A k \in (j + 1)..(i - 1) : d[k] = 0

\* C26 is stated of the states in which the strategy has just run at the
\* current bar: every bar of every feed is the current bar in such a state,
\* and an order is in the ledger from the bar it was issued at.
\* C26 as stated: the signal is +1 at bar i only when the difference is
\* positive at i and was negative at i - 1, and -1 only when it is negative
\* at i and was positive at i - 1; a Buy and a Sell are issued only so.
C26_StrictZeroCross ==
    (p.variant \in {"MovingAverageCross", "MACD"} /\ pc = "analyzer") =>
        \A d \in {SignalDiff} :
            /\ \A i \in SignalBars :
                  \A s \in {CrossOver(d, SignalStart, i)} :
                      /\ s = 1 => (d[i] > 0 /\ d[i - 1] < 0)
                      /\ s = -1 => (d[i] < 0 /\ d[i - 1] > 0)
            /\ \A n \in OrderIds :
                  LET b == orders[n].bar + 1
                  IN  IF orders[n].side = "Buy"
                      THEN d[b] > 0 /\ d[b - 1] < 0
                      ELSE d[b] < 0 /\ d[b - 1] > 0

\* C26: the signal is +1 at bar i only when the difference is positive at i
\* and was negative when it last was not zero before i, -1 only when it is
\* negative at i and was positive when it last was not zero, and one of
\* +1, -1, 0 always; a Buy is issued only at a bar where the difference so
\* turned positive and a Sell only where it so turned negative.
C26_CrossSinceLastNonZero ==
    (p.variant \in {"MovingAverageCross", "MACD"} /\ pc = "analyzer") =>
        \A d \in {SignalDiff} :
            /\ \A i \in SignalBars :
                  \A s \in {CrossOver(d, SignalStart, i)} :
                      /\ s \in {-1, 0, 1}
                      /\ s = 1 => (d[i] > 0 /\ LastNonZero(d, i, -1))
                      /\ s = -1 => (d[i] < 0 /\ LastNonZero(d, i, 1))
            /\ \A n \in OrderIds :
                  LET b == orders[n].bar + 1
                  IN  IF orders[n].side = "Buy"
                      THEN d[b] > 0 /\ LastNonZero(d, b, -1)
                      ELSE d[b] < 0 /\ LastNonZero(d, b, 1)

\* C26 witness: a Buy was issued at a bar where the difference turned
\* positive after a bar at which it was zero.
C26_Witness ==
    /\ p.variant \in {"MovingAverageCross", "MACD"}
    /\ \E n \in OrderIds :
          /\ orders[n].side = "Buy"
          /\ orders[n].bar > SignalStart
          /\ SignalDiff[orders[n].bar + 1] > 0
          /\ SignalDiff[orders[n].bar] = 0

\* the Sell orders of the ledger
Sells == {n \in OrderIds : orders[n].side = "Sell"}

\* order n is the last order of the ledger that was executed
LastFill(n) ==
    /\ orders[n].status = "Completed"
    /\ \A m \in OrderIds : m > n => orders[m].status # "Completed"

\* C27: no Sell of any variant ends refused (Rejected, Margin or Canceled):
\* a Sell is of at least one share, while it is outstanding the position
\* is the size it was issued with, and when it has completed and nothing
\* was executed since, the position is exactly 0.
C27_SellClosesPosition ==
    \A n \in Sells :
        /\ orders[n].status \notin Refused
        /\ orders[n].size >= 1
        /\ n \in Outstanding => position = orders[n].size
        /\ LastFill(n) => position = 0

\* C27 witness: a Sell of the shares a completed Buy bought has completed
\* and left the position at 0.
C27_Witness ==
    \E n \in Sells :
        /\ LastFill(n)
        /\ n > 1
        /\ orders[n - 1].side = "Buy"
        /\ orders[n - 1].status = "Completed"
        /\ orders[n - 1].size = orders[n].size
        /\ position = 0

\* the combinations optimize_parameters printed as failed
Failed == {failed[i] : i \in DOMAIN failed}

\* C28 as stated: the combinations reported as failed and the combinations
\* with a row in the returned table are disjoint: a combination reported as
\* failed has no row, and a combination whose run completed, with or
\* without a Sharpe ratio, is not reported as failed.
C28_FailedDisjointFromRows ==
    caller = "returned" =>
        /\ \A d \in Grid : d \in Failed => RowsFor(optimization_df, d) = {}
        /\ \A i \in DOMAIN Attempts :
              Attempts[i].outcome = "done" => ParamsOf(Attempts[i]) \notin Failed

\* what the code does: the combinations reported as failed are those whose
\* run raised and those whose run completed without a Sharpe ratio
ReportedFailed ==
    caller = "returned" =>
        Failed = {ParamsOf(Attempts[i]) : i \in
                     {j \in DOMAIN Attempts :
                         \/ Attempts[j].outcome = "raised"
                         \/ SharpeRatio(Attempts[j].equity, initial_cash) = "None"}}

\* a sweep returned a table in which one combination has a Sharpe ratio and
\* is not reported as failed and another has none, is reported as failed
\* and has its row all the same
RowReportedFailed ==
    /\ caller = "returned"
    /\ \E i, j \in DOMAIN Attempts :
          /\ Attempts[i].outcome = "done"
          /\ Attempts[j].outcome = "done"
          /\ ParamsOf(Attempts[i]) \notin Failed
          /\ ParamsOf(Attempts[j]) \in Failed
          /\ RowsFor(optimization_df, ParamsOf(Attempts[j])) # {}

=============================================================================
